---- MODULE Spec2Model ----
(***************************************************************************)
(* A model of the change-analysis pipeline of build_commit_prompt.py and   *)
(* build_pr_prompt.py: the redactor (scrub), the stat aggregator           *)
(* (summarize), the title heuristic (craft_title / craft_title_guess), the *)
(* truncation of the redacted diff and the control flow of main.           *)
(*                                                                         *)
(* A text is a sequence of characters; a character is a one-character      *)
(* string.  The regular expressions of the source are modelled by what     *)
(* they match, character by character.                                     *)
(***************************************************************************)
EXTENDS Integers, Sequences, FiniteSets, TLC

VARIABLES
    \* the redactor on its own
    text, once, twice, scrubPc,
    \* summarize: its two arguments and the record it returns
    numstat_out, patch_text, data, sumPc,
    \* one run of main: the script, the working directory and the repository
    variant, inRepo, stagedChanges, unstagedChanges,
    \* the locals of main
    pc, mode, rng, against, limit, base_fallback, selected, hasChanges,
    fellBack, safe,
    \* what the run did: the stat and diff commands issued, whether one
    \* exited non-zero, the artifact written, the exit status
    issued, failedCmd, artifact, exitStatus,
    \* craft_title / craft_title_guess: its arguments and the title
    titleData, max_len, title, titlePc,
    \* summarize call by call: the diff behind patch_text, line by line with
    \* what each line is; the locals files, hints and interesting; the place
    \* in the two loops; the calls of consider made so far
    diff, files, hints, interesting, fileNo, lineNo, calls, scanPc

titleVars == <<titleData, max_len, title, titlePc>>
scanVars ==
    <<diff, files, hints, interesting, fileNo, lineNo, calls, scanPc>>
scrubVars == <<text, once, twice, scrubPc>>
sumVars == <<numstat_out, patch_text, data, sumPc>>
envVars == <<variant, inRepo, stagedChanges, unstagedChanges>>
argVars == <<mode, rng, against, limit, base_fallback>>
runVars ==
    <<variant, inRepo, stagedChanges, unstagedChanges, pc, mode, rng, against,
      limit, base_fallback, selected, hasChanges, fellBack, safe, issued,
      failedCmd, artifact, exitStatus>>
vars ==
    <<text, once, twice, scrubPc, numstat_out, patch_text, data, sumPc,
      variant, inRepo, stagedChanges, unstagedChanges, pc, mode, rng, against,
      limit, base_fallback, selected, hasChanges, fellBack, safe, issued,
      failedCmd, artifact, exitStatus, titleData, max_len, title, titlePc,
      diff, files, hints, interesting, fileNo, lineNo, calls, scanPc>>

----------------------------------------------------------------------------
(* Characters and character classes                                        *)

UpperLetters ==
    <<"A","B","C","D","E","F","G","H","I","J","K","L","M",
      "N","O","P","Q","R","S","T","U","V","W","X","Y","Z">>

LowerLetters ==
    <<"a","b","c","d","e","f","g","h","i","j","k","l","m",
      "n","o","p","q","r","s","t","u","v","w","x","y","z">>

Digits == {"0","1","2","3","4","5","6","7","8","9"}

\* upper-case letter -> lower-case letter, and back
LowerOf ==
    [c \in {UpperLetters[k] : k \in 1..26} |->
        LowerLetters[CHOOSE k \in 1..26 : UpperLetters[k] = c]]
UpperOf ==
    [c \in {LowerLetters[k] : k \in 1..26} |->
        UpperLetters[CHOOSE k \in 1..26 : LowerLetters[k] = c]]

IsUpper(c) == c \in DOMAIN LowerOf
IsLower(c) == c \in DOMAIN UpperOf
IsLetter(c) == IsUpper(c) \/ IsLower(c)

\* str.lower() on one character; also the case folding of a (?i) pattern
Lower(c) == IF IsUpper(c) THEN LowerOf[c] ELSE c

\* str.upper() on one character
Upper(c) == IF IsLower(c) THEN UpperOf[c] ELSE c

\* \s of the regular expressions, and the characters str.strip() removes
IsSpace(c) == c \in {" ", "\t", "\n", "\r", "\f"}

\* [A-Za-z0-9_\-\/\.\+=] : the value class of the key-value rule
IsValueChar(c) ==
    IsLetter(c) \/ c \in Digits \/ c \in {"_", "-", "/", ".", "+", "="}

\* [A-Z ] under (?i) : the label class of the private-key rule
IsLabelChar(c) == IsLetter(c) \/ c = " "

Min(S) == CHOOSE x \in S : \A y \in S : x <= y

\* the literal lit occurs in t at index i, compared without regard to case
MatchLit(t, i, lit) ==
    /\ i >= 1
    /\ i + Len(lit) - 1 <= Len(t)
    /\ \A k \in 1..Len(lit) : Lower(t[i + k - 1]) = Lower(lit[k])

\* the first index j >= i of t whose character is not a white space
\* (Len(t) + 1 when there is none): what a greedy \s* leaves
SkipSpace(t, i) ==
    Min({j \in i..(Len(t) + 1) :
            /\ (j = Len(t) + 1 \/ ~IsSpace(t[j]))
            /\ \A k \in i..(j - 1) : IsSpace(t[k])})

\* the first index j >= i of t whose character is not a value character
ValueEnd(t, i) ==
    Min({j \in i..(Len(t) + 1) :
            /\ (j = Len(t) + 1 \/ ~IsValueChar(t[j]))
            /\ \A k \in i..(j - 1) : IsValueChar(t[k])})

\* the first index j >= i of t whose character is not a label character
LabelEnd(t, i) ==
    Min({j \in i..(Len(t) + 1) :
            /\ (j = Len(t) + 1 \/ ~IsLabelChar(t[j]))
            /\ \A k \in i..(j - 1) : IsLabelChar(t[k])})

----------------------------------------------------------------------------
(* SECRET_PATTERNS[0]: the key-value rule                                  *)

\* api[_-]?key and connection[_-]?string: two words with an optional _ or -
TwoWordLen(t, i, a, b) ==
    IF ~MatchLit(t, i, a) THEN 0
    ELSE IF MatchLit(t, i + Len(a), b) THEN Len(a) + Len(b)
    ELSE IF /\ i + Len(a) <= Len(t)
            /\ t[i + Len(a)] \in {"_", "-"}
            /\ MatchLit(t, i + Len(a) + 1, b)
         THEN Len(a) + 1 + Len(b)
    ELSE 0

\* the length of the key name (group 1) matched at index i, 0 when none is:
\* (api[_-]?key|secret|password|token|sas|connection[_-]?string)
KeyLenAt(t, i) ==
    IF TwoWordLen(t, i, <<"a","p","i">>, <<"k","e","y">>) > 0
        THEN TwoWordLen(t, i, <<"a","p","i">>, <<"k","e","y">>)
    ELSE IF MatchLit(t, i, <<"s","e","c","r","e","t">>) THEN 6
    ELSE IF MatchLit(t, i, <<"p","a","s","s","w","o","r","d">>) THEN 8
    ELSE IF MatchLit(t, i, <<"t","o","k","e","n">>) THEN 5
    ELSE IF MatchLit(t, i, <<"s","a","s">>) THEN 3
    ELSE TwoWordLen(t, i, <<"c","o","n","n","e","c","t","i","o","n">>,
                          <<"s","t","r","i","n","g">>)

MinValueLen == 6

\* the index after the match of the key-value rule that starts at i, 0 when
\* the rule does not match at i:  key \s* [:=] \s* ["']? value{6,}
KeyValueEnd(t, i) ==
    LET k == KeyLenAt(t, i) IN
    IF k = 0 THEN 0
    ELSE LET a == SkipSpace(t, i + k) IN
         IF a > Len(t) \/ t[a] \notin {":", "="} THEN 0
         ELSE LET b == SkipSpace(t, a + 1)
                  c == IF b <= Len(t) /\ t[b] \in {"\"", "'"} THEN b + 1 ELSE b
                  e == ValueEnd(t, c)
              IN  IF e - c >= MinValueLen THEN e ELSE 0

Stars == <<"*", "*", "*">>

\* the letters a key name starts with: the rule matches nowhere else
KeyInitials == {"a", "s", "p", "t", "c"}

\* re.sub of the key-value rule on t from index i on: each leftmost match,
\* taken left to right without overlap, becomes <group 1>=***
RECURSIVE SubKeyValue(_, _)
SubKeyValue(t, i) ==
    LET M == {j \in i..Len(t) :
                Lower(t[j]) \in KeyInitials /\ KeyValueEnd(t, j) > 0} IN
    IF M = {} THEN SubSeq(t, i, Len(t))
    ELSE LET j == Min(M) IN
         SubSeq(t, i, j - 1) \o SubSeq(t, j, j + KeyLenAt(t, j) - 1)
            \o <<"=">> \o Stars \o SubKeyValue(t, KeyValueEnd(t, j))

----------------------------------------------------------------------------
(* SECRET_PATTERNS[1]: the private-key block rule                          *)

Dashes == <<"-","-","-","-","-">>
BeginLit == Dashes \o <<"B","E","G","I","N"," ">>
EndLit == Dashes \o <<"E","N","D"," ">>
PrivateKeyLit == <<" ","P","R","I","V","A","T","E"," ","K","E","Y">>

\* the label (group 1) of a block opening at i, << >> when none opens:
\* -----BEGIN ([A-Z ]+?) PRIVATE KEY-----   The label characters cannot be
\* dashes, so the run of label characters after BEGIN is the label followed
\* by " PRIVATE KEY".
PemLabelAt(t, i) ==
    IF ~MatchLit(t, i, BeginLit) THEN << >>
    ELSE LET s == i + Len(BeginLit)
             r == LabelEnd(t, s)
         IN  IF /\ r - s > Len(PrivateKeyLit)
                /\ MatchLit(t, r - Len(PrivateKeyLit), PrivateKeyLit)
                /\ MatchLit(t, r, Dashes)
             THEN SubSeq(t, s, r - Len(PrivateKeyLit) - 1)
             ELSE << >>

\* the closing line of a block labelled lab
PemCloser(lab) == EndLit \o lab \o PrivateKeyLit \o Dashes

\* the index after the match of the block rule that starts at i, 0 when the
\* rule does not match at i: .*? stops at the first closing line whose label
\* is the opening one (\1, compared without regard to case)
PemEnd(t, i) ==
    LET lab == PemLabelAt(t, i) IN
    IF lab = << >> THEN 0
    ELSE LET p == i + Len(BeginLit) + Len(lab) + Len(PrivateKeyLit) + Len(Dashes)
             C == {j \in p..Len(t) : MatchLit(t, j, PemCloser(lab))}
         IN  IF C = {} THEN 0 ELSE Min(C) + Len(PemCloser(lab))

PemPlaceholder ==
    Dashes \o <<"B","E","G","I","N">> \o PrivateKeyLit \o Dashes \o <<"\n">>
      \o Stars \o <<"\n">>
      \o Dashes \o <<"E","N","D">> \o PrivateKeyLit \o Dashes

RECURSIVE SubPem(_, _)
SubPem(t, i) ==
    LET M == {j \in i..Len(t) : t[j] = "-" /\ PemEnd(t, j) > 0} IN
    IF M = {} THEN SubSeq(t, i, Len(t))
    ELSE LET j == Min(M) IN
         SubSeq(t, i, j - 1) \o PemPlaceholder \o SubPem(t, PemEnd(t, j))

----------------------------------------------------------------------------
(* SECRET_PATTERNS[2]: the clientSecret rule                               *)

ClientSecretLit ==
    <<"\"","c","l","i","e","n","t","S","e","c","r","e","t","\"">>

\* the first index j >= i of t that holds a double quote
QuoteAt(t, i) ==
    Min({j \in i..(Len(t) + 1) :
            /\ (j = Len(t) + 1 \/ t[j] = "\"")
            /\ \A k \in i..(j - 1) : t[k] # "\""})

\* the index after the match that starts at i, 0 when there is none:
\* "clientSecret" \s* : \s* " [^"]{6,} "
ClientSecretEnd(t, i) ==
    IF ~MatchLit(t, i, ClientSecretLit) THEN 0
    ELSE LET a == SkipSpace(t, i + Len(ClientSecretLit)) IN
         IF a > Len(t) \/ t[a] # ":" THEN 0
         ELSE LET b == SkipSpace(t, a + 1) IN
              IF b > Len(t) \/ t[b] # "\"" THEN 0
              ELSE LET q == QuoteAt(t, b + 1) IN
                   IF q <= Len(t) /\ q - (b + 1) >= MinValueLen
                   THEN q + 1 ELSE 0

ClientSecretPlaceholder == ClientSecretLit \o <<":", "\"">> \o Stars \o <<"\"">>

RECURSIVE SubClientSecret(_, _)
SubClientSecret(t, i) ==
    LET M == {j \in i..Len(t) : t[j] = "\"" /\ ClientSecretEnd(t, j) > 0} IN
    IF M = {} THEN SubSeq(t, i, Len(t))
    ELSE LET j == Min(M) IN
         SubSeq(t, i, j - 1) \o ClientSecretPlaceholder
            \o SubClientSecret(t, ClientSecretEnd(t, j))

----------------------------------------------------------------------------
(* scrub: the three rules in their fixed order                             *)

scrub(t) == SubClientSecret(SubPem(SubKeyValue(t, 1), 1), 1)

----------------------------------------------------------------------------
(* The redactor's inputs: texts built of at most MaxSegs segments          *)

MaxSegs == 4

TokenLit == <<"t","o","k","e","n">>
SecretValue == <<"A","b","C","d","E","1">>
KeyMaterial == <<"M","I","I","E","o","w","\n","x","9","/","k","+","Q">>
RsaLabel == <<"R","S","A">>
BeginRsa == BeginLit \o RsaLabel \o PrivateKeyLit \o Dashes \o <<"\n">>
EndRsa == <<"\n">> \o PemCloser(RsaLabel)

Segments ==
    { TokenLit \o <<"=">>, TokenLit \o <<":">>, SecretValue, <<"\"">>,
      <<" ">>, <<"\n", "+">>, BeginRsa, KeyMaterial, EndRsa,
      ClientSecretLit \o <<":">> }

RECURSIVE Concat(_)
Concat(ss) == IF ss = << >> THEN << >> ELSE Head(ss) \o Concat(Tail(ss))

SegLists == UNION {[1..n -> Segments] : n \in 1..MaxSegs}
Texts == {Concat(ss) : ss \in SegLists}

----------------------------------------------------------------------------
(* The redactor on its own: scrub applied once, then again to its result   *)

NoRef == ""
NoArtifact == [written |-> FALSE]
NoSelection ==
    [numstat_cmd |-> [numstat |-> TRUE, renames |-> FALSE, args |-> << >>],
     patch_cmd |-> [numstat |-> FALSE, renames |-> FALSE, args |-> << >>],
     source_lab |-> << >>]

\* the variables of the title heuristic while another part runs
TitleIdle ==
    /\ titleData = << >>
    /\ max_len = 0
    /\ title = << >>
    /\ titlePc = "idle"

\* the variables of the call-by-call summarize while another part runs
ScanIdle ==
    /\ diff = << >>
    /\ files = << >>
    /\ hints = << >>
    /\ interesting = << >>
    /\ fileNo = 0
    /\ lineNo = 0
    /\ calls = << >>
    /\ scanPc = "idle"

\* the variables of main while no run is modelled
RunIdle ==
    /\ variant = "none"
    /\ inRepo = FALSE
    /\ stagedChanges = FALSE
    /\ unstagedChanges = FALSE
    /\ pc = "idle"
    /\ mode = "STAGED"
    /\ rng = NoRef
    /\ against = NoRef
    /\ limit = 0
    /\ base_fallback = NoRef
    /\ selected = NoSelection
    /\ hasChanges = FALSE
    /\ fellBack = FALSE
    /\ safe = << >>
    /\ issued = << >>
    /\ failedCmd = FALSE
    /\ artifact = NoArtifact
    /\ exitStatus = -1

\* the variables of summarize while another part runs
SumIdle ==
    /\ numstat_out = << >>
    /\ patch_text = << >>
    /\ data = << >>
    /\ sumPc = "idle"

ScrubInit ==
    /\ text \in Texts
    /\ once = << >>
    /\ twice = << >>
    /\ scrubPc = "raw"
    /\ SumIdle
    /\ RunIdle
    /\ TitleIdle
    /\ ScanIdle

ScrubOnce ==
    /\ scrubPc = "raw"
    /\ once' = scrub(text)
    /\ scrubPc' = "once"
    /\ UNCHANGED <<text, twice>>
    /\ UNCHANGED <<sumVars, runVars, titleVars, scanVars>>

ScrubTwice ==
    /\ scrubPc = "once"
    /\ twice' = scrub(once)
    /\ scrubPc' = "twice"
    /\ UNCHANGED <<text, once>>
    /\ UNCHANGED <<sumVars, runVars, titleVars, scanVars>>

ScrubNext == ScrubOnce \/ ScrubTwice

SpecScrub == ScrubInit /\ [][ScrubNext]_vars

\* p occurs in t, character for character
Occurs(p, t) ==
    \E i \in 1..(Len(t) - Len(p) + 1) : SubSeq(t, i, i + Len(p) - 1) = p

\* C1: redaction is idempotent: scrub applied to its own result changes
\* nothing, scrub(scrub(t)) = scrub(t) for every text t.
C1_ScrubIdempotent == scrubPc = "twice" => twice = once

\* t is a key name, ':' or '=', optional white space, and a value of at least
\* six value characters, bare or between two quotes of one kind
IsKeyValueInput(t) ==
    LET k == KeyLenAt(t, 1) IN
    /\ k > 0
    /\ k + 1 <= Len(t)
    /\ t[k + 1] \in {":", "="}
    /\ LET b == SkipSpace(t, k + 2)
           quoted == b <= Len(t) /\ t[b] \in {"\"", "'"}
           c == IF quoted THEN b + 1 ELSE b
           e == ValueEnd(t, c)
       IN  /\ e - c >= MinValueLen
           /\ IF quoted THEN e = Len(t) /\ t[e] = t[b] ELSE e = Len(t) + 1

\* C2: a key name, ':' or '=', and a quoted or bare value of at least six
\* value characters is redacted to exactly <keyname>=***, the value gone.
C2_KeyValueRedactedExactly ==
    (scrubPc # "raw" /\ IsKeyValueInput(text))
        => once = SubSeq(text, 1, KeyLenAt(text, 1)) \o <<"=">> \o Stars

\* the first line of the key material
KeyMaterialLine == SubSeq(KeyMaterial, 1, 6)

\* t holds a whole private-key block: the opening line, the key material
\* and the closing line with the opening line's label
HoldsPemBlock(t) == Occurs(BeginRsa \o KeyMaterial \o EndRsa, t)

\* C3: whatever surrounds a private-key block whose closing label is the
\* opening one, scrub replaces the block by the placeholder block and no
\* line of the key material is left in its result.
C3_PemBlockCollapsed ==
    (scrubPc # "raw" /\ HoldsPemBlock(text))
        => (Occurs(PemPlaceholder, once) /\ ~Occurs(KeyMaterialLine, once))

----------------------------------------------------------------------------
(* summarize: the stat report                                              *)

\* str.splitlines(): the line boundaries
IsLineBreak(c) == c \in {"\n", "\r", "\f"}

\* numstat_out.splitlines() from index i on: "\r\n" is one boundary, and a
\* text that ends in a boundary has no empty last line
RECURSIVE LinesFrom(_, _)
LinesFrom(t, i) ==
    LET B == {j \in i..Len(t) : IsLineBreak(t[j])} IN
    IF i > Len(t) THEN << >>
    ELSE IF B = {} THEN <<SubSeq(t, i, Len(t))>>
    ELSE LET j == Min(B)
             n == IF t[j] = "\r" /\ j < Len(t) /\ t[j + 1] = "\n"
                  THEN j + 2 ELSE j + 1
         IN  <<SubSeq(t, i, j - 1)>> \o LinesFrom(t, n)

splitlines(t) == LinesFrom(t, 1)

\* line.split("\t")
RECURSIVE SplitTab(_)
SplitTab(line) ==
    LET T == {j \in 1..Len(line) : line[j] = "\t"} IN
    IF T = {} THEN <<line>>
    ELSE <<SubSeq(line, 1, Min(T) - 1)>>
            \o SplitTab(SubSeq(line, Min(T) + 1, Len(line)))

\* str.strip()
Strip(s) ==
    LET K == {j \in 1..Len(s) : ~IsSpace(s[j])} IN
    IF K = {} THEN << >>
    ELSE SubSeq(s, Min(K), CHOOSE j \in K : \A k \in K : k <= j)

DigitValue(c) ==
    CASE c = "0" -> 0 [] c = "1" -> 1 [] c = "2" -> 2 [] c = "3" -> 3
      [] c = "4" -> 4 [] c = "5" -> 5 [] c = "6" -> 6 [] c = "7" -> 7
      [] c = "8" -> 8 [] c = "9" -> 9

\* the value of a run of digits and underscores, the underscores skipped
RECURSIVE DecValue(_)
DecValue(ds) ==
    IF ds = << >> THEN 0
    ELSE LET last == ds[Len(ds)]
             init == SubSeq(ds, 1, Len(ds) - 1)
         IN  IF last = "_" THEN DecValue(init)
             ELSE 10 * DecValue(init) + DigitValue(last)

\* int(s): white space around is dropped, one sign may lead, and the digits
\* may hold single underscores between them; ok is FALSE where int raises
IntParse(s) ==
    LET b == Strip(s)
        signed == Len(b) >= 1 /\ b[1] \in {"+", "-"}
        ds == IF signed THEN SubSeq(b, 2, Len(b)) ELSE b
        wellFormed ==
            /\ Len(ds) >= 1
            /\ \A k \in 1..Len(ds) : ds[k] \in Digits \/ ds[k] = "_"
            /\ ds[1] # "_"
            /\ ds[Len(ds)] # "_"
            /\ \A k \in 1..(Len(ds) - 1) : ~(ds[k] = "_" /\ ds[k + 1] = "_")
    IN  IF ~wellFormed THEN [ok |-> FALSE, val |-> 0]
        ELSE [ok |-> TRUE,
              val |-> IF signed /\ b[1] = "-" THEN 0 - DecValue(ds)
                      ELSE DecValue(ds)]

\* the same without the except clause: the error of int leaves summarize
CountNoExcept(s) ==
    [val |-> IntParse(s).val, raised |-> ~IntParse(s).ok]

\* the same with the count clamped at zero
CountClamped(s) ==
    [val |-> IF IntParse(s).ok /\ IntParse(s).val > 0
             THEN IntParse(s).val ELSE 0,
     raised |-> FALSE]

\* try: a = int(a)  except: a = 0     (raised: an error left the try)
CountOf(s) ==
    [val |-> IF IntParse(s).ok THEN IntParse(s).val ELSE 0, raised |-> FALSE]

\* os.path.splitext(p)[1]: from the last dot of the last path component on,
\* unless only dots come before it in that component
SplitExt(p) ==
    LET S == {j \in 1..Len(p) : p[j] = "/"}
        D == {j \in 1..Len(p) : p[j] = "."}
        sep == IF S = {} THEN 0 ELSE CHOOSE j \in S : \A k \in S : k <= j
        dot == IF D = {} THEN 0 ELSE CHOOSE j \in D : \A k \in D : k <= j
    IN  IF dot > sep /\ \E k \in (sep + 1)..(dot - 1) : p[k] # "."
        THEN SubSeq(p, dot, Len(p))
        ELSE << >>

LowerText(s) == [k \in 1..Len(s) |-> Lower(s[k])]
UpperText(s) == [k \in 1..Len(s) |-> Upper(s[k])]

\* the mapping of file_type: extension -> kind
KnownKinds ==
    { <<<<".","p","y">>, <<"P","y","t","h","o","n">>>>,
      <<<<".","t","s">>, <<"T","y","p","e","S","c","r","i","p","t">>>>,
      <<<<".","t","s","x">>, <<"T","y","p","e","S","c","r","i","p","t">>>>,
      <<<<".","j","s">>, <<"J","a","v","a","S","c","r","i","p","t">>>>,
      <<<<".","j","s","x">>, <<"J","a","v","a","S","c","r","i","p","t">>>>,
      <<<<".","j","a","v","a">>, <<"J","a","v","a">>>>,
      <<<<".","c","s">>, <<"C","#">>>>,
      <<<<".","g","o">>, <<"G","o">>>>,
      <<<<".","r","b">>, <<"R","u","b","y">>>>,
      <<<<".","p","h","p">>, <<"P","H","P">>>>,
      <<<<".","r","s">>, <<"R","u","s","t">>>>,
      <<<<".","k","t">>, <<"K","o","t","l","i","n">>>>,
      <<<<".","s","w","i","f","t">>, <<"S","w","i","f","t">>>>,
      <<<<".","c","s","s">>, <<"S","t","y","l","e","s">>>>,
      <<<<".","s","c","s","s">>, <<"S","t","y","l","e","s">>>>,
      <<<<".","s","a","s","s">>, <<"S","t","y","l","e","s">>>>,
      <<<<".","h","t","m","l">>, <<"H","T","M","L">>>>,
      <<<<".","h","t","m">>, <<"H","T","M","L">>>>,
      <<<<".","y","m","l">>, <<"Y","A","M","L">>>>,
      <<<<".","y","a","m","l">>, <<"Y","A","M","L">>>>,
      <<<<".","j","s","o","n">>, <<"J","S","O","N">>>>,
      <<<<".","m","d">>, <<"D","o","c","s">>>>,
      <<<<".","s","h">>, <<"S","h","e","l","l">>>>,
      <<<<".","b","a","s","h">>, <<"S","h","e","l","l">>>>,
      <<<<".","s","q","l">>, <<"S","Q","L">>>>,
      <<<<".","d","o","c","k","e","r","f","i","l","e">>,
        <<"D","o","c","k","e","r">>>> }

OtherKind == <<"O","t","h","e","r">>

\* file_type(path)
file_type(path) ==
    LET ext == SplitExt(LowerText(path)) IN
    IF \E m \in KnownKinds : m[1] = ext
    THEN (CHOOSE m \in KnownKinds : m[1] = ext)[2]
    ELSE IF ext # << >> THEN UpperText(SubSeq(ext, 2, Len(ext)))
    ELSE OtherKind

\* langs[kind] += 1 on a Counter kept in the order its keys were first seen
Bump(counter, key) ==
    IF \E k \in 1..Len(counter) : counter[k].key = key
    THEN [k \in 1..Len(counter) |->
            IF counter[k].key = key
            THEN [key |-> key, n |-> counter[k].n + 1]
            ELSE counter[k]]
    ELSE Append(counter, [key |-> key, n |-> 1])

\* summarize before its first line
NoStats ==
    [files |-> << >>, languages |-> << >>, added |-> 0, deleted |-> 0,
     raised |-> FALSE]

\* the same, the deleted total left out of the running sums
StatLineNoDeleted(acc, line) ==
    LET parts == SplitTab(line) IN
    IF Len(parts) # 3 THEN acc
    ELSE LET a == CountOf(parts[1])
             d == CountOf(parts[2])
             kind == file_type(parts[3])
         IN  [files |-> Append(acc.files,
                           [path |-> parts[3], added |-> a.val,
                            deleted |-> d.val, kind |-> kind]),
              languages |-> Bump(acc.languages, kind),
              added |-> acc.added + a.val,
              deleted |-> acc.deleted,
              raised |-> FALSE]

\* the body of the loop over the lines of the stat report
StatLine(acc, line) ==
    LET parts == SplitTab(line) IN
    IF acc.raised THEN acc
    ELSE IF Len(parts) # 3 THEN acc
    ELSE LET a == CountOf(parts[1])
             d == CountOf(parts[2])
             kind == file_type(parts[3])
         IN  IF a.raised \/ d.raised THEN [acc EXCEPT !.raised = TRUE]
             ELSE [files |-> Append(acc.files,
                               [path |-> parts[3], added |-> a.val,
                                deleted |-> d.val, kind |-> kind]),
                   languages |-> Bump(acc.languages, kind),
                   added |-> acc.added + a.val,
                   deleted |-> acc.deleted + d.val,
                   raised |-> FALSE]

RECURSIVE StatLoop(_, _)
StatLoop(acc, lines) ==
    IF lines = << >> THEN acc
    ELSE StatLoop(StatLine(acc, Head(lines)), Tail(lines))

----------------------------------------------------------------------------
(* KEYWORD_HINTS and consider                                              *)

\* \w : the characters on the word side of a \b
IsWordChar(c) == IsLetter(c) \/ c \in Digits \/ c = "_"

\* one alternative of a pattern: a literal, with a \b before it or not and
\* a \b after it or not; an optional group gives one alternative for each
\* of its forms
Alt(lit, startB, endB) == [lit |-> lit, startB |-> startB, endB |-> endB]

KEYWORD_HINTS ==
    << [tag |-> <<"f","i","x">>,
        alts |->
        { Alt(<<"f","i","x">>, TRUE, TRUE),
          Alt(<<"f","i","x","e","s">>, TRUE, TRUE),
          Alt(<<"f","i","x","e","d">>, TRUE, TRUE),
          Alt(<<"b","u","g">>, TRUE, TRUE),
          Alt(<<"b","u","g","s">>, TRUE, TRUE) }],
       [tag |-> <<"r","e","f","a","c","t","o","r">>,
        alts |->
        { Alt(<<"r","e","f","a","c","t","o","r">>, TRUE, FALSE),
          Alt(<<"c","l","e","a","n","u","p">>, FALSE, FALSE),
          Alt(<<"r","e","s","t","r","u","c","t","u","r","e">>, FALSE, TRUE) }],
       [tag |-> <<"f","e","a","t">>,
        alts |->
        { Alt(<<"f","e","a","t">>, TRUE, TRUE),
          Alt(<<"f","e","a","t","u","r","e">>, TRUE, TRUE),
          Alt(<<"a","d","d">>, TRUE, TRUE),
          Alt(<<"a","d","d","e","d">>, TRUE, TRUE),
          Alt(<<"i","m","p","l","e","m","e","n","t">>, TRUE, TRUE),
          Alt(<<"i","m","p","l","e","m","e","n","t","e","d">>, TRUE, TRUE) }],
       [tag |-> <<"p","e","r","f">>,
        alts |->
        { Alt(<<"p","e","r","f">>, TRUE, TRUE),
          Alt(<<"p","e","r","f","o","r","m","a","n","c","e">>, TRUE, TRUE),
          Alt(<<"o","p","t","i","m","i","s","e">>, TRUE, TRUE),
          Alt(<<"o","p","t","i","m","i","z","e">>, TRUE, TRUE),
          Alt(<<"o","p","t","i","m","i","s","e","d">>, TRUE, TRUE),
          Alt(<<"o","p","t","i","m","i","z","e","d">>, TRUE, TRUE) }],
       [tag |-> <<"d","o","c","s">>,
        alts |->
        { Alt(<<"d","o","c">>, TRUE, TRUE),
          Alt(<<"d","o","c","s">>, TRUE, TRUE),
          Alt(<<"d","o","c","u","m","e","n","t","a","t","i","o","n">>, TRUE, TRUE),
          Alt(<<"r","e","a","d","m","e">>, TRUE, TRUE) }],
       [tag |-> <<"t","e","s","t">>,
        alts |->
        { Alt(<<"t","e","s","t">>, TRUE, TRUE),
          Alt(<<"t","e","s","t","s">>, TRUE, TRUE),
          Alt(<<"t","e","s","t","i","n","g">>, TRUE, TRUE),
          Alt(<<"u","n","i","t","t","e","s","t">>, TRUE, TRUE),
          Alt(<<"u","n","i","t","-","t","e","s","t">>, TRUE, TRUE),
          Alt(<<"u","n","i","t"," ","t","e","s","t">>, TRUE, TRUE),
          Alt(<<"c","i">>, TRUE, TRUE) }],
       [tag |-> <<"b","u","i","l","d">>,
        alts |->
        { Alt(<<"b","u","i","l","d">>, TRUE, FALSE),
          Alt(<<"p","i","p","e","l","i","n","e">>, FALSE, FALSE),
          Alt(<<"c","i","/","c","d">>, FALSE, FALSE),
          Alt(<<"g","i","t","h","u","b"," ","a","c","t","i","o","n","s">>, FALSE, FALSE),
          Alt(<<"w","o","r","k","f","l","o","w">>, FALSE, TRUE) }],
       [tag |-> <<"s","e","c","u","r","i","t","y">>,
        alts |->
        { Alt(<<"s","e","c">>, TRUE, TRUE),
          Alt(<<"s","e","c","u","r","i","t","y">>, TRUE, TRUE),
          Alt(<<"s","e","c","r","e","t">>, TRUE, TRUE),
          Alt(<<"s","e","c","r","e","t","s">>, TRUE, TRUE),
          Alt(<<"v","u","l","n">>, TRUE, FALSE) }],
       [tag |-> <<"c","h","o","r","e">>,
        alts |->
        { Alt(<<"c","h","o","r","e">>, TRUE, TRUE),
          Alt(<<"d","e","p">>, TRUE, TRUE),
          Alt(<<"d","e","p","s">>, TRUE, TRUE),
          Alt(<<"d","e","p","e","n","d","e","n","c","y">>, TRUE, TRUE),
          Alt(<<"u","p","g","r","a","d","e">>, TRUE, TRUE),
          Alt(<<"u","p","d","a","t","e">>, TRUE, TRUE) }] >>

\* the alternative a matches in t at index i
AltAt(a, t, i) ==
    /\ MatchLit(t, i, a.lit)
    /\ a.startB => (i = 1 \/ ~IsWordChar(t[i - 1]))
    /\ a.endB => (i + Len(a.lit) > Len(t) \/ ~IsWordChar(t[i + Len(a.lit)]))

\* rx.search(text)
Search(rx, t) == \E a \in rx.alts : \E i \in 1..Len(t) : AltAt(a, t, i)

\* consider without a path
NoPath == << >>

\* interesting[path]: the examples recorded for path
ExamplesOf(table, path) ==
    IF \E k \in 1..Len(table) : table[k].key = path
    THEN (CHOOSE e \in {table[k] : k \in 1..Len(table)} :
             e.key = path).examples
    ELSE << >>

\* table[path].append(example)
AddExample(table, path, example) ==
    IF \E k \in 1..Len(table) : table[k].key = path
    THEN [k \in 1..Len(table) |->
            IF table[k].key = path
            THEN [key |-> path,
                  examples |-> Append(table[k].examples, example)]
            ELSE table[k]]
    ELSE Append(table, [key |-> path, examples |-> <<example>>])

\* the same, the example appended whatever the number already recorded
ConsiderOneUncapped(st, k, t, path) ==
    IF Search(KEYWORD_HINTS[k], t)
    THEN [hints |-> Bump(st.hints, KEYWORD_HINTS[k].tag),
          interesting |->
            IF path # NoPath
            THEN AddExample(st.interesting, path, Strip(t))
            ELSE st.interesting]
    ELSE st

\* one turn of the loop of consider: the k-th pattern tried on the text
ConsiderOne(st, k, t, path) ==
    IF Search(KEYWORD_HINTS[k], t)
    THEN [hints |-> Bump(st.hints, KEYWORD_HINTS[k].tag),
          interesting |->
            IF path # NoPath /\ Len(ExamplesOf(st.interesting, path)) < 3
            THEN AddExample(st.interesting, path, Strip(t))
            ELSE st.interesting]
    ELSE st

RECURSIVE ConsiderFrom(_, _, _, _)
ConsiderFrom(st, k, t, path) ==
    IF k > Len(KEYWORD_HINTS) THEN st
    ELSE ConsiderFrom(ConsiderOne(st, k, t, path), k + 1, t, path)

\* consider(text, path) on the counters and the examples st
consider(st, t, path) == ConsiderFrom(st, 1, t, path)

\* hints and interesting before the first call
NoSignals == [hints |-> << >>, interesting |-> << >>]

\* for f in files: consider(f["path"], f["path"])
RECURSIVE ConsiderFiles(_, _)
ConsiderFiles(st, fs) ==
    IF fs = << >> THEN st
    ELSE ConsiderFiles(consider(st, Head(fs).path, Head(fs).path), Tail(fs))

\* the same test, the lines that start with "+++" or "---" let through
IsChangeLineAnyPrefix(line) ==
    Len(line) >= 1 /\ line[1] \in {"+", "-"}

\* line.startswith(("+", "-")) and not line.startswith(("+++", "---"))
IsChangeLine(line) ==
    /\ Len(line) >= 1
    /\ line[1] \in {"+", "-"}
    /\ ~(Len(line) >= 3 /\ SubSeq(line, 1, 3) \in {<<"+","+","+">>, <<"-","-","-">>})

\* for line in patch_text.splitlines(): ... consider(line)
RECURSIVE ConsiderLines(_, _)
ConsiderLines(st, lines) ==
    IF lines = << >> THEN st
    ELSE ConsiderLines(IF IsChangeLine(Head(lines))
                       THEN consider(st, Head(lines), NoPath) ELSE st,
                       Tail(lines))

\* summarize(numstat_out, patch_text): the files, the languages, the totals,
\* the counters and the examples
summarize(stat, patch) ==
    LET s == StatLoop(NoStats, splitlines(stat))
        sig == ConsiderLines(ConsiderFiles(NoSignals, s.files),
                             splitlines(patch))
    IN  [files |-> s.files, languages |-> s.languages, added |-> s.added,
         deleted |-> s.deleted, raised |-> s.raised,
         hints |-> IF s.raised THEN << >> ELSE sig.hints,
         interesting |-> IF s.raised THEN << >> ELSE sig.interesting]

----------------------------------------------------------------------------
(* The stat reports summarize is given: at most MaxStatLines lines, each   *)
(* ended by a newline                                                      *)

MaxStatLines == 2

CountFields == { <<"3">>, <<"-">>, <<"-","5">>, <<"+","1","2">> }
PathFields == { <<"a",".","p","y">>, <<"b">> }

StatLines ==
    { a \o <<"\t">> \o d \o <<"\t">> \o p :
        a \in CountFields, d \in CountFields, p \in PathFields }
    \cup { <<"3","\t","a",".","p","y">>,
           <<"3","\t","1","\t","a",".","p","y","\t","z">>,
           << >> }

RECURSIVE JoinLines(_)
JoinLines(ls) ==
    IF ls = << >> THEN << >>
    ELSE Head(ls) \o <<"\n">> \o JoinLines(Tail(ls))

StatTexts ==
    {JoinLines(ls) : ls \in UNION {[1..n -> StatLines] : n \in 0..MaxStatLines}}

ScrubIdle ==
    /\ text = << >>
    /\ once = << >>
    /\ twice = << >>
    /\ scrubPc = "idle"

SumInit ==
    /\ numstat_out \in StatTexts
    /\ patch_text = << >>
    /\ data = NoStats
    /\ sumPc = "call"
    /\ ScrubIdle
    /\ RunIdle
    /\ TitleIdle
    /\ ScanIdle

\* summarize(numstat_out, patch_text) runs and returns its record, unless
\* an error leaves it
Summarize ==
    /\ sumPc = "call"
    /\ data' = summarize(numstat_out, patch_text)
    /\ sumPc' = IF data'.raised THEN "raised" ELSE "returned"
    /\ UNCHANGED <<numstat_out, patch_text>>
    /\ UNCHANGED <<scrubVars, runVars, titleVars, scanVars>>

SumNext == Summarize

SpecSum == SumInit /\ [][SumNext]_vars

RECURSIVE SumAdded(_)
SumAdded(fs) == IF fs = << >> THEN 0 ELSE Head(fs).added + SumAdded(Tail(fs))

RECURSIVE SumDeleted(_)
SumDeleted(fs) ==
    IF fs = << >> THEN 0 ELSE Head(fs).deleted + SumDeleted(Tail(fs))

\* C5: the added total and the deleted total summarize returns are the sums
\* of the added and of the deleted counts of the files it returns.
C5_TotalsAreSums ==
    sumPc = "returned" =>
        /\ data.added = SumAdded(data.files)
        /\ data.deleted = SumDeleted(data.files)

\* C5's case: two files, both totals other than zero
C5_Witness ==
    /\ sumPc = "returned"
    /\ Len(data.files) = 2
    /\ data.files[1].deleted # 0
    /\ data.files[2].deleted # 0
    /\ data.added # 0
    /\ data.deleted # 0

TabCount(line) == Cardinality({j \in 1..Len(line) : line[j] = "\t"})

\* the lines of t that hold exactly three tab-separated fields, in order
ThreeFieldLines(t) ==
    SelectSeq(splitlines(t), LAMBDA l : TabCount(l) = 2)

RECURSIVE SumN(_)
SumN(counter) ==
    IF counter = << >> THEN 0 ELSE Head(counter).n + SumN(Tail(counter))

\* C6: summarize never raises; each line of exactly three tab-separated
\* fields yields one FileChange, in input order, with 0 on each side whose
\* field is not an integer; any other line yields no FileChange and leaves
\* the totals and the language counts as they were.
C6_LenientParsing ==
    sumPc # "call" =>
        LET good == ThreeFieldLines(numstat_out) IN
        /\ sumPc # "raised"
        /\ Len(data.files) = Len(good)
        /\ \A k \in 1..Len(good) :
              LET f == SplitTab(good[k]) IN
              /\ data.files[k].path = f[3]
              /\ ~IntParse(f[1]).ok => data.files[k].added = 0
              /\ ~IntParse(f[2]).ok => data.files[k].deleted = 0
        /\ SumN(data.languages) = Len(good)
        /\ LET r == StatLoop(NoStats, good) IN
              /\ data.files = r.files
              /\ data.languages = r.languages
              /\ data.added = r.added
              /\ data.deleted = r.deleted

\* C6's case: a line of another field count beside a line whose added field
\* is not an integer
C6_Witness ==
    /\ sumPc = "returned"
    /\ Len(splitlines(numstat_out)) = 2
    /\ Len(data.files) = 1
    /\ ~IntParse(SplitTab(ThreeFieldLines(numstat_out)[1])[1]).ok
    /\ IntParse(SplitTab(ThreeFieldLines(numstat_out)[1])[2]).ok
    /\ data.files[1].added = 0
    /\ data.files[1].deleted # 0

\* C7: every FileChange has added >= 0 and deleted >= 0, and both totals
\* are >= 0, whatever the stat report holds.
C7_CountsNonNegative ==
    sumPc = "returned" =>
        /\ \A k \in 1..Len(data.files) :
              data.files[k].added >= 0 /\ data.files[k].deleted >= 0
        /\ data.added >= 0
        /\ data.deleted >= 0

----------------------------------------------------------------------------
(* main: arguments, comparison selection, truncation                       *)

MinLimit == 2000
DefaultLimit == 30000
DefaultMaxChars == <<"3","0","0","0","0">>

Max(a, b) == IF a >= b THEN a ELSE b

\* get_limit: v is the value of --max-chars, or the default "30000"
get_limit(v) ==
    IF IntParse(v).ok THEN Max(MinLimit, IntParse(v).val) ELSE DefaultLimit

\* parse_mode: rangeArg is the value of --range (NoRef: absent or empty),
\* unst tells whether --unstaged was given
parse_mode(rangeArg, unst) ==
    IF rangeArg # NoRef THEN [mode |-> "RANGE", rng |-> rangeArg]
    ELSE IF unst THEN [mode |-> "UNSTAGED", rng |-> NoRef]
    ELSE [mode |-> "STAGED", rng |-> NoRef]

BaseGuesses == <<"origin/main", "main", "origin/master", "master">>

\* detect_default_base: originHead is refs/remotes/origin/HEAD without its
\* refs/remotes/ prefix (NoRef: the command failed), existing the guesses
\* that git rev-parse --verify accepts
detect_default_base(originHead, existing) ==
    IF originHead # NoRef THEN originHead
    ELSE IF \E k \in 1..Len(BaseGuesses) : BaseGuesses[k] \in existing
    THEN BaseGuesses[Min({k \in 1..Len(BaseGuesses) : BaseGuesses[k] \in existing})]
    ELSE "main"

\* collect_diff(mode, rng, base, head): the two commands and the source
\* label; v is the script ("commit" has no base and no --find-renames)
collect_diff(v, m, r, base, head) ==
    LET cmds(args, lab) ==
            [numstat_cmd |-> [numstat |-> TRUE, renames |-> v = "pr", args |-> args],
             patch_cmd |-> [numstat |-> FALSE, renames |-> v = "pr", args |-> args],
             source_lab |-> lab]
    IN  IF v = "pr" /\ base # NoRef
        THEN cmds(<<base, "...", head>>, <<"branch delta", base, "...", head>>)
        ELSE IF m = "STAGED" THEN cmds(<<"--cached">>, <<"index (staged)">>)
        ELSE IF m = "UNSTAGED" THEN cmds(<< >>, <<"working tree (unstaged)">>)
        ELSE cmds(<<r>>, <<"range", r>>)

\* "~" stands for the one character U+2026 (horizontal ellipsis)
Ellipsis == "~"
Marker == <<Ellipsis," ","(","t","r","u","n","c","a","t","e","d",")">>

\* the same, the length test made on the text before redaction
SafeDiffRawLength(t, lim) ==
    IF Len(t) > lim
    THEN SubSeq(scrub(t), 1, lim) \o <<"\n">> \o Marker
    ELSE scrub(t)

\* safe = scrub(patch_text); if len(safe) > limit: safe = safe[:limit] + ...
SafeDiff(t, lim) ==
    LET r == scrub(t) IN
    IF Len(r) > lim THEN SubSeq(r, 1, lim) \o <<"\n">> \o Marker ELSE r

----------------------------------------------------------------------------
(* The inputs of a run                                                     *)

RangeArgs == {NoRef, "HEAD~3..HEAD"}
AgainstArgs == {NoRef, "origin/release"}
MaxCharsArgs == {DefaultMaxChars, <<"a","b","c">>, <<"5">>, <<"2","0","0","4">>}
NoBase == [originHead |-> NoRef, existing |-> {}]
BaseInputs ==
    { [originHead |-> "origin/trunk", existing |-> {}],
      [originHead |-> NoRef, existing |-> {"origin/master", "master"}] }

Pad(n) == [k \in 1..n |-> "#"]

StatOutput == <<"3","\t","1","\t","a",".","p","y","\n">>

ShortPatch == <<"+">> \o TokenLit \o <<"=">> \o SecretValue \o <<"\n">>
ExactPatch == Pad(MinLimit)
LongPatch == Pad(MinLimit + 1)
ShrinkingPatch ==
    Pad(MinLimit - 5) \o TokenLit \o <<"=">> \o SecretValue \o SecretValue

PatchTexts == {ShortPatch, ExactPatch, LongPatch, ShrinkingPatch}

\* whether the comparison cmd asks for shows changes: the index and the
\* working tree are as the repository has them, a range may go either way
Changes(cmd) ==
    IF cmd.args = <<"--cached">> THEN {stagedChanges}
    ELSE IF cmd.args = << >> THEN {unstagedChanges}
    ELSE BOOLEAN

----------------------------------------------------------------------------
(* One run of main                                                         *)

RunInit ==
    /\ variant \in {"commit", "pr"}
    /\ inRepo \in BOOLEAN
    /\ stagedChanges \in BOOLEAN
    /\ unstagedChanges \in BOOLEAN
    /\ pc = "start"
    /\ mode = "STAGED"
    /\ rng = NoRef
    /\ against = NoRef
    /\ limit = 0
    /\ base_fallback = NoRef
    /\ selected = NoSelection
    /\ hasChanges = FALSE
    /\ fellBack = FALSE
    /\ safe = << >>
    /\ issued = << >>
    /\ failedCmd = FALSE
    /\ artifact = NoArtifact
    /\ exitStatus = -1
    /\ numstat_out = << >>
    /\ patch_text = << >>
    /\ data = NoStats
    /\ sumPc = "idle"
    /\ ScrubIdle
    /\ TitleIdle
    /\ ScanIdle

\* ensure_git_repo
EnsureGitRepo ==
    /\ pc = "start"
    /\ IF inRepo
       THEN pc' = "args" /\ exitStatus' = exitStatus
       ELSE pc' = "exited" /\ exitStatus' = 2
    /\ UNCHANGED <<envVars, argVars, selected, hasChanges, fellBack, safe,
                   issued, failedCmd, artifact, sumVars, scrubVars,
                   titleVars, scanVars>>

\* parse_mode, get_limit, get_against, detect_default_base, collect_diff
ParseArgs ==
    /\ pc = "args"
    /\ \E rangeArg \in RangeArgs, unst \in BOOLEAN, mc \in MaxCharsArgs,
          againstArg \in (IF variant = "pr" THEN AgainstArgs ELSE {NoRef}),
          b \in (IF variant = "pr" THEN BaseInputs ELSE {NoBase}) :
          LET pm == parse_mode(rangeArg, unst) IN
          /\ mode' = pm.mode
          /\ rng' = pm.rng
          /\ limit' = get_limit(mc)
          /\ against' = againstArg
          /\ base_fallback' =
                IF variant = "pr" THEN detect_default_base(b.originHead, b.existing)
                ELSE NoRef
          /\ selected' = collect_diff(variant, pm.mode, pm.rng, againstArg, "HEAD")
    /\ pc' = "numstat"
    /\ UNCHANGED <<envVars, hasChanges, fellBack, safe, issued, failedCmd,
                   artifact, exitStatus, sumVars, scrubVars,
                   titleVars, scanVars>>

\* the same with run(cmd, check=False): the failure is not seen
AbortIgnored(cmd) ==
    /\ issued' = Append(issued, cmd)
    /\ failedCmd' = TRUE
    /\ pc' = "analyse"
    /\ UNCHANGED <<envVars, argVars, selected, hasChanges, fellBack, safe,
                   artifact, exitStatus, sumVars, scrubVars,
                   titleVars, scanVars>>

\* run(cmd) raises RuntimeError: the command exited non-zero; main prints
\* the error and calls sys.exit(1)
Abort(cmd) ==
    /\ issued' = Append(issued, cmd)
    /\ failedCmd' = TRUE
    /\ exitStatus' = 1
    /\ pc' = "exited"
    /\ UNCHANGED <<envVars, argVars, selected, hasChanges, fellBack, safe,
                   artifact, sumVars, scrubVars, titleVars, scanVars>>

\* numstat_out = run(numstat_cmd), of the first selection or of the fallback
RunNumstat ==
    /\ pc = "numstat"
    /\ \/ Abort(selected.numstat_cmd)
       \/ \E ch \in Changes(selected.numstat_cmd) :
             /\ issued' = Append(issued, selected.numstat_cmd)
             /\ hasChanges' = ch
             /\ numstat_out' = IF ch THEN StatOutput ELSE << >>
             /\ pc' = "patch"
             /\ UNCHANGED <<envVars, argVars, selected, fellBack, safe,
                            failedCmd, artifact, exitStatus, patch_text, data,
                            sumPc, scrubVars, titleVars, scanVars>>

\* the test of the auto-fallback, made once, after the first selection
FallsBack(stat, patch) ==
    /\ variant = "pr"
    /\ ~fellBack
    /\ Strip(stat) = << >>
    /\ Strip(patch) = << >>
    /\ mode \in {"STAGED", "UNSTAGED"}
    /\ rng = NoRef
    /\ against = NoRef

\* patch_text = run(patch_cmd), of the first selection or of the fallback;
\* after the first selection, the choice of the fallback comparison
RunPatch ==
    /\ pc = "patch"
    /\ \/ Abort(selected.patch_cmd)
       \/ \E p \in (IF hasChanges THEN PatchTexts ELSE {<< >>}) :
             /\ issued' = Append(issued, selected.patch_cmd)
             /\ patch_text' = p
             /\ IF FallsBack(numstat_out, p)
                THEN /\ selected' =
                           collect_diff("pr", "RANGE", NoRef, base_fallback, "HEAD")
                     /\ fellBack' = TRUE
                     /\ pc' = "numstat"
                ELSE /\ UNCHANGED <<selected, fellBack>>
                     /\ pc' = "analyse"
             /\ UNCHANGED <<envVars, argVars, hasChanges, safe, failedCmd,
                            artifact, exitStatus, numstat_out, data, sumPc,
                            scrubVars, titleVars, scanVars>>

\* data = summarize(...); safe = scrub(patch_text), truncated
Analyse ==
    /\ pc = "analyse"
    /\ data' = summarize(numstat_out, patch_text)
    /\ safe' = SafeDiff(patch_text, limit)
    /\ pc' = "write"
    /\ UNCHANGED <<envVars, argVars, selected, hasChanges, fellBack, issued,
                   failedCmd, artifact, exitStatus, numstat_out, patch_text,
                   sumPc, scrubVars, titleVars, scanVars>>

\* the repository name (unknown-repo when git fails), the prompt, the file
WritePrompt ==
    /\ pc = "write"
    /\ \E repo_name \in {"repo", "unknown-repo"} :
          artifact' = [written |-> TRUE, repo_name |-> repo_name,
                       source_label |-> selected.source_lab,
                       data |-> data, body |-> safe]
    /\ exitStatus' = 0
    /\ pc' = "exited"
    /\ UNCHANGED <<envVars, argVars, selected, hasChanges, fellBack, safe,
                   issued, failedCmd, sumVars, scrubVars, titleVars, scanVars>>

RunNext == EnsureGitRepo \/ ParseArgs \/ RunNumstat \/ RunPatch \/ Analyse \/ WritePrompt

SpecRun == RunInit /\ [][RunNext]_vars

\* the branch-delta label of the auto-detected base
FallbackLabel == <<"branch delta", base_fallback, "...", "HEAD">>

\* neither --range nor --against given, nothing staged, nothing unstaged
NothingToShow ==
    /\ rng = NoRef
    /\ against = NoRef
    /\ ~stagedChanges
    /\ ~unstagedChanges

\* C4: the PR script falls back to <auto-detected base>...HEAD exactly when
\* no --range and no --against was given and both the staged and the
\* unstaged comparison are empty; the label is then the branch-delta label
\* of the auto-detected base, and the fallback is never taken while the
\* staged or the unstaged comparison is non-empty.
C4_FallbackExactlyWhenBothEmpty ==
    variant = "pr" =>
        /\ fellBack => (NothingToShow /\ selected.source_lab = FallbackLabel)
        /\ (pc \in {"analyse", "write"} /\ NothingToShow) => fellBack

\* C8: a stat or diff command that exits non-zero (the fallback's included)
\* ends the run with exit status 1 and no artifact; outside a working tree
\* the run ends with exit status 2 before any stat or diff command is
\* issued, with no artifact; the artifact is written only when every stat
\* and diff command succeeded.
C8_FailuresLeaveNoArtifact ==
    /\ failedCmd => (pc = "exited" /\ exitStatus = 1 /\ ~artifact.written)
    /\ (~inRepo /\ pc # "start") =>
          (pc = "exited" /\ exitStatus = 2 /\ issued = << >> /\ ~artifact.written)
    /\ artifact.written => (inRepo /\ ~failedCmd /\ exitStatus = 0)

\* C8's case: the diff command of the fallback comparison exits non-zero
C8_Witness ==
    /\ pc = "exited"
    /\ fellBack
    /\ failedCmd
    /\ Len(issued) = 4
    /\ ~issued[4].numstat
    /\ exitStatus = 1
    /\ ~artifact.written

\* the body is the redacted text cut at the limit: its first limit
\* characters, a newline and the marker when it is longer than the limit,
\* the redacted text itself otherwise
BodyIsCutRedactedText ==
    LET r == scrub(patch_text)
        body == artifact.body
    IN  /\ limit >= MinLimit
        /\ Len(r) <= limit => body = r
        /\ Len(r) > limit =>
              /\ Len(body) = limit + 1 + Len(Marker)
              /\ SubSeq(body, 1, limit) = SubSeq(r, 1, limit)
              /\ body[limit + 1] = "\n"
              /\ SubSeq(body, limit + 2, Len(body)) = Marker

\* C9 as stated: the body is computed from the redacted text (cut at the
\* limit and followed by a newline and the marker, or unchanged), and is
\* never longer than the limit plus the length of the marker.
C9_BodyWithinLimitPlusMarker ==
    artifact.written =>
        /\ BodyIsCutRedactedText
        /\ Len(artifact.body) <= limit + Len(Marker)

\* C9 as amended: the same, the body never longer than the limit plus the
\* newline plus the length of the marker.
C9_BodyWithinLimitPlusNewlineAndMarker ==
    artifact.written =>
        /\ BodyIsCutRedactedText
        /\ Len(artifact.body) <= limit + 1 + Len(Marker)

\* C9's case: a diff that redaction changes and that is still longer than
\* the limit once redacted, so that the body is cut
C9_Witness ==
    /\ artifact.written
    /\ scrub(patch_text) # patch_text
    /\ Len(scrub(patch_text)) > limit
    /\ Len(artifact.body) = limit + 1 + Len(Marker)

----------------------------------------------------------------------------
(* conventional_prefix and craft_title / craft_title_guess                 *)

Priority ==
    << <<"f","i","x">>, <<"s","e","c","u","r","i","t","y">>, <<"f","e","a","t">>, <<"p","e","r","f">>, <<"r","e","f","a","c","t","o","r">>, <<"b","u","i","l","d">>, <<"t","e","s","t">>,
       <<"d","o","c","s">>, <<"c","h","o","r","e">> >>

NoPrefix == << >>

\* the same, the tags tried in the order KEYWORD_HINTS lists them
conventional_prefix_in_pattern_order(tags) ==
    LET order == << <<"f","i","x">>, <<"r","e","f","a","c","t","o","r">>, <<"f","e","a","t">>, <<"p","e","r","f">>, <<"d","o","c","s">>, <<"t","e","s","t">>,
                    <<"b","u","i","l","d">>, <<"s","e","c","u","r","i","t","y">>, <<"c","h","o","r","e">> >>
    IN  IF \E k \in 1..Len(order) : order[k] \in tags
        THEN order[Min({k \in 1..Len(order) : order[k] \in tags})]
        ELSE NoPrefix

\* conventional_prefix(tags): tags is the set of the tags counted
conventional_prefix(tags) ==
    IF \E k \in 1..Len(Priority) : Priority[k] \in tags
    THEN Priority[Min({k \in 1..Len(Priority) : Priority[k] \in tags})]
    ELSE NoPrefix

\* Counter.most_common(n): by count, largest first, equal counts in the
\* order the keys were first seen
RECURSIVE most_common(_, _)
most_common(counter, n) ==
    IF n = 0 \/ counter = << >> THEN << >>
    ELSE LET k == Min({i \in 1..Len(counter) :
                        \A j \in 1..Len(counter) : counter[j].n <= counter[i].n})
         IN  <<counter[k]>> \o
             most_common(SubSeq(counter, 1, k - 1)
                            \o SubSeq(counter, k + 1, Len(counter)), n - 1)

\* sep.join(parts)
RECURSIVE Join(_, _)
Join(parts, sep) ==
    IF parts = << >> THEN << >>
    ELSE IF Len(parts) = 1 THEN parts[1]
    ELSE parts[1] \o sep \o Join(Tail(parts), sep)

DigitChars == <<"0","1","2","3","4","5","6","7","8","9">>

\* str(n) of an integer
RECURSIVE NatStr(_)
NatStr(n) ==
    IF n < 10 THEN <<DigitChars[n + 1]>>
    ELSE NatStr(n \div 10) \o <<DigitChars[(n % 10) + 1]>>

IntStr(n) == IF n < 0 THEN <<"-">> \o NatStr(0 - n) ELSE NatStr(n)

\* text.split(): the words between runs of white space
RECURSIVE WordsFrom(_, _)
WordsFrom(t, i) ==
    LET a == SkipSpace(t, i) IN
    IF a > Len(t) THEN << >>
    ELSE LET E == {j \in a..Len(t) : IsSpace(t[j])}
             e == IF E = {} THEN Len(t) + 1 ELSE Min(E)
         IN  <<SubSeq(t, a, e - 1)>> \o WordsFrom(t, e)

\* [^\d\W] : the letters of the word-separator pattern
IsWordLetter(c) == IsLetter(c) \/ c = "_"

\* the hyphen at p of word w ends a chunk: two letters, or letter-hyphen-
\* letter, before it and two letters, or letter-hyphen-letter, after it
HyphenBreak(w, p) ==
    /\ w[p] = "-"
    /\ \/ (p > 2 /\ IsWordLetter(w[p - 1]) /\ IsWordLetter(w[p - 2]))
       \/ (p > 3 /\ IsWordLetter(w[p - 1]) /\ w[p - 2] = "-"
                 /\ IsWordLetter(w[p - 3]))
    /\ p + 2 <= Len(w)
    /\ IsWordLetter(w[p + 1])
    /\ \/ IsWordLetter(w[p + 2])
       \/ (p + 3 <= Len(w) /\ w[p + 2] = "-" /\ IsWordLetter(w[p + 3]))

\* wordsep_re on one word that holds no run of hyphens after a word
\* character: the word cut after each hyphen that joins two parts of it
RECURSIVE SplitWord(_, _)
SplitWord(w, start) ==
    LET P == {p \in (start + 1)..Len(w) : HyphenBreak(w, p)} IN
    IF P = {} THEN <<SubSeq(w, start, Len(w))>>
    ELSE <<SubSeq(w, start, Min(P))>> \o SplitWord(w, Min(P) + 1)

\* TextWrapper._split on single-spaced words: the chunks of the words and
\* the spaces between them
RECURSIVE ChunksOf(_)
ChunksOf(words) ==
    IF words = << >> THEN << >>
    ELSE IF Len(words) = 1 THEN SplitWord(words[1], 1)
    ELSE SplitWord(words[1], 1) \o << <<" ">> >> \o ChunksOf(Tail(words))

RECURSIVE TotalLen(_)
TotalLen(chunks) ==
    IF chunks = << >> THEN 0 ELSE Len(Head(chunks)) + TotalLen(Tail(chunks))

\* TextWrapper._handle_long_word: the end of the piece of chunk that goes
\* on the line, space_left characters or up to the last hyphen in them
LongWordEnd(chunk, space_left) ==
    LET H == {j \in 1..space_left : chunk[j] = "-"}
        h == IF H = {} THEN 0 ELSE CHOOSE j \in H : \A k \in H : k <= j
    IN  IF h > 1 /\ \E k \in 1..(h - 1) : chunk[k] # "-" THEN h ELSE space_left

\* the placeholder put after the chunks of the line, whatever room is left
DropNothing(cur, width) ==
    Join(cur, << >>) \o <<Ellipsis>>

\* the line without the chunks that take no placeholder after them
RECURSIVE DropForPlaceholder(_, _)
DropForPlaceholder(cur, width) ==
    IF cur = << >> THEN <<Ellipsis>>
    ELSE IF Strip(cur[Len(cur)]) # << >> /\ TotalLen(cur) + 1 <= width
         THEN Join(cur, << >>) \o <<Ellipsis>>
    ELSE DropForPlaceholder(SubSeq(cur, 1, Len(cur) - 1), width)

\* TextWrapper._wrap_chunks for max_lines = 1: the one line of the result
WrapOneLine(chunks, width) ==
    LET K == {k \in 0..Len(chunks) : TotalLen(SubSeq(chunks, 1, k)) <= width}
        k == CHOOSE x \in K : \A y \in K : y <= x
        fit == SubSeq(chunks, 1, k)
        rest == SubSeq(chunks, k + 1, Len(chunks))
        long == rest # << >> /\ Len(rest[1]) > width
        end == IF long THEN LongWordEnd(rest[1], width - TotalLen(fit)) ELSE 0
        cur1 == IF long THEN Append(fit, SubSeq(rest[1], 1, end)) ELSE fit
        cur == IF cur1 # << >> /\ Strip(cur1[Len(cur1)]) = << >>
               THEN SubSeq(cur1, 1, Len(cur1) - 1) ELSE cur1
    IN  IF rest = << >> /\ TotalLen(cur) <= width
        THEN Join(cur, << >>)
        ELSE DropForPlaceholder(cur, width)

\* textwrap.shorten(text, width=width, placeholder=U+2026)
shorten(t, width) ==
    IF WordsFrom(t, 1) = << >> THEN << >>
    ELSE WrapOneLine(ChunksOf(WordsFrom(t, 1)), width)

Keys(counter) == {counter[k].key : k \in 1..Len(counter)}

\* craft_title(data, max_len) / craft_title_guess(data, max_len)
craft_title(d, width) ==
    LET top == most_common(d.languages, 3)
        kinds == [k \in 1..Len(top) |-> top[k].key]
        kind_str == IF kinds # << >> THEN LowerText(Join(kinds, <<",", " ">>))
                    ELSE <<"f","i","l","e","s">>
        prefix == conventional_prefix(Keys(d.hints))
        core == IF prefix # NoPrefix THEN prefix \o <<":", " ">> \o kind_str
                ELSE <<"u","p","d","a","t","e"," ">> \o kind_str
        counts == IF d.added # 0 /\ d.deleted # 0
                  THEN << <<"+">> \o IntStr(d.added) \o <<"/", "-">>
                             \o IntStr(d.deleted) >>
                  ELSE IF d.added # 0 THEN << <<"+">> \o IntStr(d.added) >>
                  ELSE IF d.deleted # 0 THEN << <<"-">> \o IntStr(d.deleted) >>
                  ELSE << >>
        extra == IF d.files # << >>
                 THEN Append(counts, IntStr(Len(d.files)) \o <<" ","f","i","l","e","s">>)
                 ELSE counts
        t == IF extra # << >>
             THEN core \o <<" ", "(">> \o Join(extra, <<",", " ">>) \o <<")">>
             ELSE core
    IN  shorten(Join(WordsFrom(t, 1), <<" ">>), width)

\* build_pr_prompt.py holds the same function under this name
craft_title_guess(d, width) == craft_title(d, width)

----------------------------------------------------------------------------
(* The title heuristic on analysis records and widths                      *)

MaxTitleWidth == 62
DefaultMaxLen == 72

Widths == (1..MaxTitleWidth) \cup {DefaultMaxLen}

Kind(name, n) == [key |-> name, n |-> n]

LanguageCounters ==
    { << >>,
      << Kind(<<"P","y","t","h","o","n">>, 2) >>,
      << Kind(<<"G","o">>, 1), Kind(<<"P","y","t","h","o","n">>, 3), Kind(<<"C","#">>, 1), Kind(<<"D","o","c","s">>, 1) >>,
      << Kind(<<"T","y","p","e","S","c","r","i","p","t">>, 4), Kind(<<"J","a","v","a","S","c","r","i","p","t">>, 4), Kind(<<"S","t","y","l","e","s">>, 9) >>,
      << Kind(<<"A","-","B","-","C","D">>, 1), Kind(<<"F","O","O","-","B","A","R","-","B","A","Z","Q","U","X">>, 1) >>,
      << Kind(<<"L","O","C","K"," ","F","I","L","E">>, 1), Kind(<<"P","R","O","T","O","B","U","F","D","E","F","I","N","I","T","I","O","N","S">>, 2) >> }

\* the added and removed lines whose counters the records carry
HintLines ==
    { << >>,
      << <<"+","u","p","d","a","t","e"," ","t","h","e"," ","d","o","c","s">>, <<"-","s","e","e"," ","R","E","A","D","M","E">>, <<"+","f","i","x"," ","t","y","p","o">> >>,
      << <<"-","c","l","e","a","n","u","p">>, <<"+","a","d","d"," ","f","e","a","t","u","r","e"," ","f","l","a","g">>, <<"+","a","d","d","e","d"," ","t","e","s","t","s">> >>,
      << <<"+","u","p","g","r","a","d","e"," ","d","e","p","s">>, <<"+","r","o","t","a","t","e"," ","s","e","c","r","e","t">>, <<"-","v","u","l","n","e","r","a","b","l","e"," ","c","a","l","l">> >> }

\* the counters summarize accumulates over those lines
HintCounters == { ConsiderLines(NoSignals, ls).hints : ls \in HintLines }

Totals == {0, 7, 0 - 5, 1234}

FileEntry == [path |-> <<"a",".","p","y">>, added |-> 0, deleted |-> 0, kind |-> <<"P","y","t","h","o","n">>]

FileLists == { << >>, <<FileEntry>>, [k \in 1..12 |-> FileEntry] }

AnalysisRecords ==
    [files : FileLists, languages : LanguageCounters, added : Totals,
     deleted : Totals, hints : HintCounters]

TitleInit ==
    /\ titleData \in AnalysisRecords
    /\ max_len \in Widths
    /\ title = << >>
    /\ titlePc = "call"
    /\ ScrubIdle
    /\ SumIdle
    /\ RunIdle
    /\ ScanIdle

\* build_commit_prompt.py: craft_title(data, max_len) returns
CraftTitle ==
    /\ titlePc = "call"
    /\ title' = craft_title(titleData, max_len)
    /\ titlePc' = "commit"
    /\ UNCHANGED <<titleData, max_len>>
    /\ UNCHANGED <<scrubVars, sumVars, runVars, scanVars>>

\* build_pr_prompt.py: craft_title_guess(data, max_len) returns
CraftTitleGuess ==
    /\ titlePc = "call"
    /\ title' = craft_title_guess(titleData, max_len)
    /\ titlePc' = "pr"
    /\ UNCHANGED <<titleData, max_len>>
    /\ UNCHANGED <<scrubVars, sumVars, runVars, scanVars>>

TitleNext == CraftTitle \/ CraftTitleGuess

SpecTitle == TitleInit /\ [][TitleNext]_vars

TitleReturned == titlePc \in {"commit", "pr"}

\* C10: whatever the analysis record and whatever max_len >= 1, the title
\* that craft_title / craft_title_guess returns has at most max_len
\* characters
C10_TitleWithinMaxLen ==
    TitleReturned => Len(title) <= max_len

\* a title was cut: the placeholder ends it, it fills the width, and a word
\* was broken to fill it
C10_Witness ==
    /\ TitleReturned
    /\ max_len < DefaultMaxLen
    /\ Len(title) = max_len
    /\ Len(title) > 1
    /\ title[Len(title)] = Ellipsis
    /\ title[Len(title) - 1] # ","

----------------------------------------------------------------------------
(* The dominant category and the prefix of the title                       *)

\* Counter[tag]: the count of tag, 0 for a tag never counted
CountIn(counter, tag) ==
    IF \E k \in 1..Len(counter) : counter[k].key = tag
    THEN (CHOOSE e \in {counter[k] : k \in 1..Len(counter)} : e.key = tag).n
    ELSE 0

\* the first tag of the priority order counted at least once, if there is one
Dominant(counter) ==
    LET P == {k \in 1..Len(Priority) : CountIn(counter, Priority[k]) > 0} IN
    IF P = {} THEN NoPrefix ELSE Priority[Min(P)]

StartsWith(t, p) == Len(p) <= Len(t) /\ SubSeq(t, 1, Len(p)) = p

\* the first word of the title before it is shortened
PrefixWord(counter) ==
    IF Dominant(counter) # NoPrefix THEN Dominant(counter) \o <<":">>
    ELSE <<"u","p","d","a","t","e">>

\* C11: the tag chosen for a record is the first tag of the order fix,
\* security, feat, perf, refactor, build, test, docs, chore that was counted
\* at least once, and none when nothing was counted; the title starts with
\* that tag and a colon, or with "update" when there is none: always at the
\* default width, and at any width that leaves room for that first word and
\* the placeholder
C11_DominantTagPrefixesTitle ==
    TitleReturned =>
        /\ conventional_prefix(Keys(titleData.hints)) = Dominant(titleData.hints)
        /\ \A k \in 1..Len(titleData.hints) :
              titleData.hints[k].n > 0
        /\ (max_len = DefaultMaxLen \/ max_len > Len(PrefixWord(titleData.hints)))
              => StartsWith(title, PrefixWord(titleData.hints))

\* a record where docs was counted before fix and more often: the title at
\* the default width starts with "fix:"
C11_Witness ==
    /\ TitleReturned
    /\ max_len = DefaultMaxLen
    /\ Len(titleData.hints) > 1
    /\ titleData.hints[1].key = <<"d","o","c","s">>
    /\ Dominant(titleData.hints) = <<"f","i","x">>
    /\ StartsWith(title, <<"f","i","x",":"," ">>)

----------------------------------------------------------------------------
(* summarize call by call: the stat report and the diff it is given        *)

MaxScanFiles == 2
MaxDiffLines == 2

ScanPaths ==
    { <<"a","d","d","-","f","i","x","-","t","e","s","t","-","d","o","c","s",".","m","d">>, <<"s","r","c","/","a",".","p","y">>, <<"R","E","A","D","M","E",".","m","d">> }

ScanStatLines == { <<"3", "\t", "1", "\t">> \o p : p \in ScanPaths }

ScanStatTexts ==
    {JoinLines(ls) :
        ls \in UNION {[1..n -> ScanStatLines] : n \in 0..MaxScanFiles}}

\* one line of a diff and what it is: a header of the old or the new file,
\* a hunk header, a context line, an added or a removed line
DiffLine(kind, t) == [kind |-> kind, text |-> t]

DiffHead ==
    << DiffLine("old", <<"-","-","-"," ","a","/","s","r","c","/","a",".","p","y">>),
       DiffLine("new", <<"+","+","+"," ","b","/","s","r","c","/","a",".","p","y">>),
       DiffLine("hunk",
                <<"@","@"," ","-","1",",","3"," ","+","1",",","3"," ","@","@">>) >>

\* the lines of a hunk: the last two are a removed line whose own text is
\* "-- fix bug" and an added line whose own text is "++tests;"
HunkLines ==
    { DiffLine("context", <<" ","f","i","x"," ","t","h","e"," ","b","u","i","l","d">>),
      DiffLine("added", <<"+","a","d","d"," ","u","n","i","t"," ","t","e","s","t">>),
      DiffLine("removed", <<"-","u","p","d","a","t","e"," ","d","e","p","s">>),
      DiffLine("added", <<"+","x"," ","="," ","1">>),
      DiffLine("removed", <<"-","-","-"," ","f","i","x"," ","b","u","g">>),
      DiffLine("added", <<"+","+","+","t","e","s","t","s",";">>) }

Diffs ==
    { << >> } \cup
    { DiffHead \o body :
        body \in UNION {[1..n -> HunkLines] : n \in 1..MaxDiffLines} }

RECURSIVE TextsOf(_)
TextsOf(d) == IF d = << >> THEN << >> ELSE <<Head(d).text>> \o TextsOf(Tail(d))

\* a call of consider: where it was made from and its two arguments
Call(from, t, path) == [from |-> from, text |-> t, path |-> path]

ScanInit ==
    /\ numstat_out \in ScanStatTexts
    /\ diff \in Diffs
    /\ patch_text = JoinLines(TextsOf(diff))
    /\ data = NoStats
    /\ sumPc = "idle"
    /\ files = << >>
    /\ hints = << >>
    /\ interesting = << >>
    /\ fileNo = 0
    /\ lineNo = 0
    /\ calls = << >>
    /\ scanPc = "stat"
    /\ ScrubIdle
    /\ RunIdle
    /\ TitleIdle

\* the first loop of summarize: the report parsed into files
ParseStat ==
    /\ scanPc = "stat"
    /\ files' = StatLoop(NoStats, splitlines(numstat_out)).files
    /\ fileNo' = 1
    /\ lineNo' = 1
    /\ scanPc' = "scan"
    /\ UNCHANGED <<diff, hints, interesting, calls>>
    /\ UNCHANGED <<scrubVars, sumVars, runVars, titleVars>>

\* one turn of: for f in files: consider(f["path"], f["path"])
ConsiderPath ==
    /\ scanPc = "scan"
    /\ fileNo <= Len(files)
    /\ LET path == files[fileNo].path
           st == consider([hints |-> hints, interesting |-> interesting],
                          path, path)
       IN  /\ hints' = st.hints
           /\ interesting' = st.interesting
           /\ calls' = Append(calls, Call("path", path, path))
    /\ fileNo' = fileNo + 1
    /\ UNCHANGED <<diff, files, lineNo, scanPc>>
    /\ UNCHANGED <<scrubVars, sumVars, runVars, titleVars>>

\* one turn of: for line in patch_text.splitlines(): if ...: consider(line)
ScanLine ==
    /\ scanPc = "scan"
    /\ fileNo > Len(files)
    /\ lineNo <= Len(splitlines(patch_text))
    /\ LET line == splitlines(patch_text)[lineNo]
           st == consider([hints |-> hints, interesting |-> interesting],
                          line, NoPath)
       IN  IF IsChangeLine(line)
           THEN /\ hints' = st.hints
                /\ interesting' = st.interesting
                /\ calls' = Append(calls, Call("line", line, NoPath))
           ELSE UNCHANGED <<hints, interesting, calls>>
    /\ lineNo' = lineNo + 1
    /\ UNCHANGED <<diff, files, fileNo, scanPc>>
    /\ UNCHANGED <<scrubVars, sumVars, runVars, titleVars>>

\* return {...}
ScanReturn ==
    /\ scanPc = "scan"
    /\ fileNo > Len(files)
    /\ lineNo > Len(splitlines(patch_text))
    /\ LET s == StatLoop(NoStats, splitlines(numstat_out)) IN
       data' = [files |-> files, languages |-> s.languages,
                added |-> s.added, deleted |-> s.deleted, raised |-> FALSE,
                hints |-> hints, interesting |-> interesting]
    /\ scanPc' = "returned"
    /\ UNCHANGED <<numstat_out, patch_text, sumPc>>
    /\ UNCHANGED <<diff, files, hints, interesting, fileNo, lineNo, calls>>
    /\ UNCHANGED <<scrubVars, runVars, titleVars>>

ScanNext == ParseStat \/ ConsiderPath \/ ScanLine \/ ScanReturn

SpecScan == ScanInit /\ [][ScanNext]_vars

\* the record built call by call is the record of summarize
ScanAgreesWithSummarize ==
    scanPc = "returned" => data = summarize(numstat_out, patch_text)

\* the tags KEYWORD_HINTS counts
Tags == {KEYWORD_HINTS[k].tag : k \in 1..Len(KEYWORD_HINTS)}

\* this step made a call of consider
CallMade == Len(calls') = Len(calls) + 1

\* what one step of summarize does to the counters and the examples
ConsiderStep ==
    /\ \A k \in 1..Len(interesting') : Len(interesting'[k].examples) <= 3
    /\ Keys(hints') \subseteq Tags
    /\ \A k \in 1..Len(KEYWORD_HINTS) :
          CountIn(hints', KEYWORD_HINTS[k].tag) =
              CountIn(hints, KEYWORD_HINTS[k].tag)
              + (IF CallMade /\ Search(KEYWORD_HINTS[k], calls'[Len(calls')].text)
                 THEN 1 ELSE 0)
    /\ (~CallMade \/ calls'[Len(calls')].path = NoPath)
          => interesting' = interesting

\* C12: in every step of summarize no path has more than 3 examples, a call
\* of consider adds exactly 1 to the counter of each category whose pattern
\* matches its text and leaves the other counters as they were, a step
\* without a call changes no counter, and the examples change only in a
\* call that was given a path
C12_ConsiderCountsAndCapsExamples == [][ConsiderStep]_vars

\* summarize returned after a path matched four categories and kept three
\* examples, and after a diff line raised feat a second time
C12_Witness ==
    /\ scanPc = "returned"
    /\ \E k \in 1..Len(interesting) :
          /\ interesting[k].key = <<"a","d","d","-","f","i","x","-","t","e","s","t","-","d","o","c","s",".","m","d">>
          /\ Len(interesting[k].examples) = 3
    /\ CountIn(hints, <<"f","i","x">>) = 1
    /\ CountIn(hints, <<"f","e","a","t">>) >= 2
    /\ \E k \in 1..Len(calls) :
          calls[k].path = NoPath /\ Search(KEYWORD_HINTS[3], calls[k].text)

IsPathCall(c) == c.from = "path"
IsLineCall(c) == c.from = "line"
IsContent(l) == l.kind \in {"added", "removed"}

RECURSIVE CallTexts(_)
CallTexts(cs) ==
    IF cs = << >> THEN << >> ELSE <<Head(cs).text>> \o CallTexts(Tail(cs))

\* C13: when summarize returns, consider was called once for each parsed
\* file path, in order, and once for each added or removed line of the
\* diff, in order, and for no other line: no header or context line was
\* scanned and no added or removed line was left out, the lines whose own
\* text begins with "++" or "--" included
C13_EveryContentLineScannedOnce ==
    scanPc = "returned" =>
        /\ CallTexts(SelectSeq(calls, IsPathCall))
              = [k \in 1..Len(files) |-> files[k].path]
        /\ CallTexts(SelectSeq(calls, IsLineCall))
              = TextsOf(SelectSeq(diff, IsContent))

====
